---- MODULE Spec2Model ----
(***************************************************************************)
(* Model of the schema library of object-editor-react:                     *)
(*   Schema.js      (src/unnamed/part_000)  SchemaTypes, SchemaType        *)
(*   validation.js  (src/unnamed/part_001)  isValidSchema, ...             *)
(*                                                                         *)
(* JavaScript values are tagged records.  The only mutable program state   *)
(* is the __proto__ of the validator functions that the SchemaTypes        *)
(* constructors share (SchemaType() assigns func.__proto__); it is the     *)
(* variable "proto".  The variable "returned" holds the SchemaTypes that   *)
(* the constructors of those validators have returned to the client so     *)
(* far.  The other variables hold the call a client is making and what it  *)
(* got back.                                                               *)
(***************************************************************************)
EXTENDS Integers, Sequences, FiniteSets, TLC

VARIABLES proto, returned, pc, op, arg1, arg2, result

vars == <<proto, returned, pc, op, arg1, arg2, result>>

(***************************************************************************)
(* Bounds                                                                  *)
(***************************************************************************)
MaxTypes == 1
MaxArrayLen == 2

(***************************************************************************)
(* JavaScript values                                                       *)
(***************************************************************************)
Undefined == [k |-> "undefined"]
Null == [k |-> "null"]
Bool(b) == [k |-> "boolean", b |-> b]
True == Bool(TRUE)
False == Bool(FALSE)
Num(n) == [k |-> "number", n |-> n]
NaN == [k |-> "NaN"]
Str(s) == [k |-> "string", s |-> s]
Arr(els) == [k |-> "array", els |-> els]
Field(key, val) == [key |-> key, val |-> val]
\* an accessor property: val is what its getter returns
Accessor(key, val) == [key |-> key, val |-> val, accessor |-> TRUE]
IsAccessor(f) == "accessor" \in DOMAIN f
\* a plain object: its own enumerable properties in insertion order
Obj(fields) == [k |-> "object", fields |-> fields]
DateV(valid) == [k |-> "date", valid |-> valid]

\* Function.prototype, the __proto__ of a function nobody has touched
FunctionPrototype == [k |-> "object", fields |-> <<>>, builtin |-> "Function.prototype"]

\* the validator functions that exist once, at module scope, and are shared
\* by every invocation of their constructor (Schema.js lines 5-33); the
\* __proto__ of each is in the variable proto
SharedValidators == {"any", "string", "boolean", "function", "number",
                     "date", "array", "object"}
SharedFn(id) == [k |-> "function", fn |-> "shared", id |-> id]
\* the closure returned by getOptionalValidator(of), with its __proto__ and
\* its own property isRequired (which is the function "of" itself)
OptionalFn(of, pr) == [k |-> "function", fn |-> "optional", of |-> of, proto |-> pr]
\* the closure returned by isArrayOfType(type)
ArrayOfTypeFn(type, pr) == [k |-> "function", fn |-> "isArrayOfType", type |-> type, proto |-> pr]
\* the closure object => objectMatchesSchema(shape, object) of shape()
ShapeFn(shape, pr) == [k |-> "function", fn |-> "shapeValidator", shape |-> shape, proto |-> pr]
\* the factories returned by arrayOf(E) and shape(X)
ArrayOfFactory(type) == [k |-> "function", fn |-> "arrayOfFactory", type |-> type, proto |-> FunctionPrototype]
ShapeFactory(shape) == [k |-> "function", fn |-> "shapeFactory", shape |-> shape, proto |-> FunctionPrototype]
\* some other function, such as () => true
PlainFn == [k |-> "function", fn |-> "plain", proto |-> FunctionPrototype]

\* outcomes of a call
Ret(v) == [t |-> "return", v |-> v]
Throw(e) == [t |-> "throw", e |-> e]
TypeError == [name |-> "TypeError"]
IsThrow(r) == r.t = "throw"

(***************************************************************************)
(* The language: typeof, truthiness, property access, Object.keys          *)
(***************************************************************************)
typeOf(v) ==
    CASE v.k = "undefined" -> "undefined"
      [] v.k = "null" -> "object"
      [] v.k = "boolean" -> "boolean"
      [] v.k \in {"number", "NaN"} -> "number"
      [] v.k = "string" -> "string"
      [] v.k = "function" -> "function"
      [] OTHER -> "object"

Truthy(v) ==
    CASE v.k \in {"undefined", "null", "NaN"} -> FALSE
      [] v.k = "boolean" -> v.b
      [] v.k = "number" -> v.n # 0
      [] v.k = "string" -> Len(v.s) > 0
      [] OTHER -> TRUE

\* the property names "0", "1", ... of array elements and string characters
IndexKeys == <<"0", "1", "2", "3">>
IsIndexKey(key, n) == \E i \in 1..n : i <= Len(IndexKeys) /\ IndexKeys[i] = key
IndexOfKey(key) == CHOOSE i \in 1..Len(IndexKeys) : IndexKeys[i] = key
Chars(s) ==
    CASE s = "hi" -> <<"h", "i">>
      [] s = "junk" -> <<"j", "u", "n", "k">>
      [] OTHER -> <<>>

HasOwn(fields, key) == \E i \in 1..Len(fields) : fields[i].key = key
OwnValue(fields, key) == fields[CHOOSE i \in 1..Len(fields) : fields[i].key = key].val
\* a property read on a plain object whose __proto__ is Object.prototype
GetField(fields, key) == IF HasOwn(fields, key) THEN OwnValue(fields, key) ELSE Undefined

\* the __proto__ of a function
ProtoOf(f) == IF f.fn = "shared" THEN proto[f.id] ELSE f.proto

\* v[key] for a v that is neither undefined nor null
Get(v, key) ==
    CASE v.k = "object" -> GetField(v.fields, key)
      [] v.k = "array" ->
            IF IsIndexKey(key, Len(v.els)) THEN v.els[IndexOfKey(key)] ELSE Undefined
      [] v.k = "string" ->
            IF IsIndexKey(key, Len(Chars(v.s))) THEN Str(Chars(v.s)[IndexOfKey(key)])
            ELSE Undefined
      [] v.k = "function" ->
            IF v.fn = "optional" /\ key = "isRequired" THEN v.of
            ELSE GetField(ProtoOf(v).fields, key)
      [] OTHER -> Undefined

\* Object.keys(v) for a v that is neither undefined nor null
ObjectKeys(v) ==
    CASE v.k = "object" -> [i \in 1..Len(v.fields) |-> v.fields[i].key]
      [] v.k = "array" -> [i \in 1..Len(v.els) |-> IndexKeys[i]]
      [] v.k = "string" -> [i \in 1..Len(Chars(v.s)) |-> IndexKeys[i]]
      [] v.k = "function" /\ v.fn = "optional" -> <<"isRequired">>
      [] OTHER -> <<>>

\* { ...a, ...b }: the properties of a, then those of b; a key of b that a
\* has keeps a's position and takes b's value
RECURSIVE Spread(_, _)
Spread(a, b) ==
    IF b = <<>> THEN a
    ELSE LET f == Head(b)
             a2 == IF HasOwn(a, f.key)
                   THEN [i \in 1..Len(a) |-> IF a[i].key = f.key THEN f ELSE a[i]]
                   ELSE Append(a, f)
         IN Spread(a2, Tail(b))

\* the first throwing outcome of a sequence of outcomes, when there is one
AnyThrow(rs) == \E i \in 1..Len(rs) : IsThrow(rs[i])
FirstThrow(rs) == rs[CHOOSE i \in 1..Len(rs) :
                        IsThrow(rs[i]) /\ \A j \in 1..(i - 1) : ~IsThrow(rs[j])]

(***************************************************************************)
(* validation.js                                                           *)
(***************************************************************************)
\* Object.prototype.toString.call(object)
toString(object) ==
    CASE object.k = "undefined" -> "[object Undefined]"
      [] object.k = "null" -> "[object Null]"
      [] object.k = "boolean" -> "[object Boolean]"
      [] object.k \in {"number", "NaN"} -> "[object Number]"
      [] object.k = "string" -> "[object String]"
      [] object.k = "array" -> "[object Array]"
      [] object.k = "date" -> "[object Date]"
      [] object.k = "function" -> "[object Function]"
      [] OTHER -> "[object Object]"

invalidSchemaMessage(badLeaf, location) ==
    [name |-> "Error", message |-> "Expected a SchemaType", location |-> location,
     badLeaf |-> badLeaf, typeofBadLeaf |-> typeOf(badLeaf)]

RECURSIVE isValidSchema(_, _)
isValidSchema(schema, location) ==
    IF schema.k \in {"undefined", "null"}
    THEN Throw(TypeError)                      \* reading schema._isSchemaType
    ELSE IF Truthy(Get(schema, "_isSchemaType"))
    THEN Ret(Null)
    ELSE IF typeOf(schema) = "object" /\ Len(ObjectKeys(schema)) > 0
    THEN LET keys == ObjectKeys(schema)
             rs == [i \in 1..Len(keys) |->
                        isValidSchema(Get(schema, keys[i]), location \o <<keys[i]>>)]
         IN IF AnyThrow(rs) THEN FirstThrow(rs) ELSE Ret(Null)
    ELSE Throw(invalidSchemaMessage(schema, location))

isValidDate(test) ==
    IF toString(test) # "[object Date]" THEN False ELSE Bool(test.valid)

getPrimitiveValidator(type, test) == Bool(typeOf(test) = type)

isSomething(test) == Bool(typeOf(test) # "undefined")

\* isObject written with typeof, which null, arrays and dates pass too
isObject_typeof(test) == Bool(typeOf(test) = "object")

isObject(test) == Bool(toString(test) = "[object Object]")

ExpectedValidSchema == [name |-> "Error", message |-> "Expected \"schema\" to be a valid schema"]

\* memo && match, folded from true over the matches
RECURSIVE ReduceAnd(_, _)
ReduceAnd(memo, ms) ==
    IF ms = <<>> THEN memo
    ELSE ReduceAnd(IF Truthy(memo) THEN Head(ms) ELSE memo, Tail(ms))

\* _.every(xs, f) given the outcomes rs of f on the elements in order: stops
\* at the first element whose outcome is a throw or is falsy
EveryOutcome(rs) ==
    LET stops(i) == IsThrow(rs[i]) \/ ~Truthy(rs[i].v)
    IN IF \E i \in 1..Len(rs) : stops(i)
       THEN LET i == CHOOSE i \in 1..Len(rs) : stops(i) /\ \A j \in 1..(i - 1) : ~stops(j)
            IN IF IsThrow(rs[i]) THEN rs[i] ELSE Ret(False)
       ELSE Ret(True)

RECURSIVE objectMatchesSchema(_, _)
RECURSIVE objectMatchesSchemaInner(_, _)
RECURSIVE Call(_, _)
RECURSIVE isArrayOfType(_, _)
RECURSIVE getOptionalValidator(_, _)

\* objectMatchesSchema without its try/catch: the error of isValidSchema
\* reaches the caller
objectMatchesSchema_uncaught(schema, testObject) ==
    IF IsThrow(isValidSchema(schema, <<>>))
    THEN isValidSchema(schema, <<>>)
    ELSE objectMatchesSchemaInner(schema, testObject)

objectMatchesSchema(schema, testObject) ==
    IF IsThrow(isValidSchema(schema, <<>>))
    THEN Throw(ExpectedValidSchema)
    ELSE objectMatchesSchemaInner(schema, testObject)

objectMatchesSchemaInner(schema, testObject) ==
    IF schema.k \in {"undefined", "null"}
    THEN Throw(TypeError)
    ELSE IF Truthy(Get(schema, "_isSchemaType"))
    THEN Call(schema, testObject)
    ELSE LET keys == ObjectKeys(schema)
             ms == [i \in 1..Len(keys) |->
                        objectMatchesSchemaInner(
                            Get(schema, keys[i]),
                            IF Truthy(testObject) THEN Get(testObject, keys[i])
                            ELSE testObject)]
         IN IF AnyThrow(ms) THEN FirstThrow(ms)
            ELSE Ret(ReduceAnd(True, [i \in 1..Len(ms) |-> ms[i].v]))

\* isArrayOfType(type)(testArray)
isArrayOfType(type, testArray) ==
    IF testArray.k # "array" THEN Ret(False)
    ELSE EveryOutcome([i \in 1..Len(testArray.els) |->
                            objectMatchesSchema(type, testArray.els[i])])

\* getOptionalValidator that takes null for an absent value too (== null)
getOptionalValidator_nullish(actuallyValidate, testObject) ==
    IF testObject.k \in {"undefined", "null"} THEN Ret(True)
    ELSE Call(actuallyValidate, testObject)

\* getOptionalValidator(actuallyValidate)(testObject)
getOptionalValidator(actuallyValidate, testObject) ==
    IF typeOf(testObject) = "undefined" THEN Ret(True)
    ELSE Call(actuallyValidate, testObject)

\* f(x): the call of the value f on one argument
Call(f, x) ==
    IF f.k # "function" THEN Throw(TypeError)
    ELSE CASE f.fn = "shared" ->
                 (CASE f.id = "any" -> Ret(isSomething(x))
                    [] f.id = "date" -> Ret(isValidDate(x))
                    [] f.id = "array" -> Ret(Bool(x.k = "array"))
                    [] f.id = "object" -> Ret(isObject(x))
                    [] OTHER -> Ret(getPrimitiveValidator(f.id, x)))
           [] f.fn = "optional" -> getOptionalValidator(f.of, x)
           [] f.fn = "isArrayOfType" -> isArrayOfType(f.type, x)
           [] f.fn = "shapeValidator" -> objectMatchesSchema(f.shape, x)
           [] OTHER -> Ret(True)

isValidShape(schema) ==
    IF ~Truthy(isObject(schema))
    THEN Throw([name |-> "Error", message |-> "Expected schema to be an object",
                typeofSchema |-> typeOf(schema)])
    ELSE isValidSchema(schema, <<>>)

(***************************************************************************)
(* Schema.js                                                               *)
(***************************************************************************)
NoOptions == Obj(<<>>)

\* the object SchemaType(validate, type, opts) assigns to func.__proto__
SchemaType(type, opts) ==
    Obj(Spread(<<Field("_isSchemaType", True), Field("_type", Str(type))>>, opts.fields))

\* the function "validate" once SchemaType() has assigned its __proto__; the
\* __proto__ of a shared validator is in the variable proto
WithProto(validate, pr) ==
    IF validate.fn = "shared" THEN validate ELSE [validate EXCEPT !.proto = pr]

\* getOptionalSchemaTypeFactory(validator, typeName)(opts): the value returned
getOptionalSchemaTypeFactory(validator, typeName, opts) ==
    LET pr == SchemaType(typeName, opts)
    IN OptionalFn(WithProto(validator, pr), pr)

\* SchemaTypes.any, .string, .boolean, .function, .number, .date, .array,
\* .object invoked with opts: the value returned
SchemaTypes(name, opts) == getOptionalSchemaTypeFactory(SharedFn(name), name, opts)

\* { ...object }: the own enumerable properties of object, each read (through
\* its getter when it is an accessor) and copied as a data property
OwnEnumerable(fields) == [i \in 1..Len(fields) |-> Field(fields[i].key, fields[i].val)]

\* the __proto__ that WithImmutableVariables(Class, ...variableNames) leaves
\* on Class when its __proto__ was pr: for each name in turn, a copy of the
\* own enumerable properties of the __proto__ with an accessor of that name,
\* whose getter returns the stored value, null at first
RECURSIVE WithImmutableVariables(_, _)
WithImmutableVariables(pr, variableNames) ==
    IF variableNames = <<>> THEN pr
    ELSE WithImmutableVariables(
            Obj(Spread(OwnEnumerable(pr.fields), <<Accessor(Head(variableNames), Null)>>)),
            Tail(variableNames))

\* the setter of the accessor variableName of the __proto__ pr, run with
\* value: it stores value when the stored value is null, and throws
\* otherwise
AssertionError == [name |-> "AssertionError"]
setVariable(pr, variableName, value) ==
    IF OwnValue(pr.fields, variableName) = Null THEN Ret(value) ELSE Throw(AssertionError)
\* the __proto__ after that
AfterSetVariable(pr, variableName, value) ==
    IF OwnValue(pr.fields, variableName) = Null
    THEN Obj([i \in 1..Len(pr.fields) |->
                IF pr.fields[i].key = variableName
                THEN Accessor(variableName, value) ELSE pr.fields[i]])
    ELSE pr

\* SchemaTypes.arrayOf(arrayElementType)(options)
arrayOf(arrayElementType, options) ==
    getOptionalSchemaTypeFactory(
        ArrayOfTypeFn(arrayElementType, FunctionPrototype),
        "arrayOf",
        Obj(Spread(options.fields, <<Field("_elementType", arrayElementType)>>)))

\* SchemaTypes.shape(shape): the factory, or the error
shape(shapeArg) ==
    LET r == isValidShape(shapeArg)
    IN IF IsThrow(r) THEN r
       ELSE IF ~Truthy(r.v)
       THEN Throw([name |-> "Error", message |-> "Expected a valid shape", got |-> shapeArg])
       ELSE Ret(ShapeFactory(shapeArg))

\* the factory returned by shape(shape), invoked with options
shapeFactory(shapeArg, options) ==
    getOptionalSchemaTypeFactory(
        ShapeFn(shapeArg, FunctionPrototype),
        "shape",
        Obj(Spread(options.fields, <<Field("_shape", shapeArg)>>)))

(***************************************************************************)
(* What a client passes in                                                 *)
(***************************************************************************)
\* the objects passed as options
OptionsSet == {NoOptions, Obj(<<Field("required", True)>>)}

\* the names of fields of schemas and of values
SchemaKeys == {"a", "b", "_isSchemaType"}

\* all sequences over S of length at most n
RECURSIVE SeqsUpTo(_, _)
SeqsUpTo(S, n) ==
    IF n = 0 THEN {<<>>}
    ELSE LET shorter == SeqsUpTo(S, n - 1)
         IN shorter \cup {Append(q, x) : q \in {r \in shorter : Len(r) = n - 1}, x \in S}

Junk == Str("junk")

\* the type names and the validators passed to the exported SchemaType() and
\* getOptionalSchemaTypeFactory(), and the variable names passed to
\* WithImmutableVariables()
TypeNames == {"custom"}
RawValidators == {"object"}
VariableNames == {<<"_isSchemaType">>}
ExportedCallOptions == {NoOptions}
\* the values assigned to a variable that WithImmutableVariables installed
AssignedValues == {True}

\* the SchemaTypes the client holds: those that invocations of the
\* constructors of the shared validators have returned so far, whatever was
\* invoked since, and their isRequired siblings
BasicSchemaTypes == returned \cup {Get(T, "isRequired") : T \in returned}

ArrayOfSchemaTypes ==
    LET optional == {arrayOf(E, NoOptions) : E \in {Junk} \cup BasicSchemaTypes}
    IN optional \cup {Get(T, "isRequired") : T \in optional}

LeafSchemaTypes == BasicSchemaTypes \cup ArrayOfSchemaTypes

\* values that are no SchemaType and no mapping
NonSchemas ==
    {Undefined, Null, Junk, Num(1), NaN, True, Obj(<<>>), Arr(<<>>), DateV(TRUE), PlainFn,
     ArrayOfFactory(Junk)}
        \cup {SharedFn(c) : c \in SharedValidators}

\* the isRequired SchemaTypes among them
RequiredSchemaTypes == {Get(T, "isRequired") : T \in returned}

\* the nodes put in the fields of a mapping
FieldNodes ==
    BasicSchemaTypes \cup {Junk, Obj(<<>>), Null} \cup {SharedFn(c) : c \in RawValidators}
PairNodes == BasicSchemaTypes \cup {arrayOf(Junk, NoOptions), Junk}

Mappings1 ==
    {Obj(<<Field(key, n)>>) : key \in SchemaKeys, n \in FieldNodes}
        \cup {Obj(<<Field("a", T)>>) :
                    T \in {arrayOf(Junk, NoOptions), Get(arrayOf(Junk, NoOptions), "isRequired")}}
Mappings2 ==
    {Obj(<<Field("a", n1), Field("b", n2)>>) :
            n1 \in PairNodes, n2 \in RequiredSchemaTypes \cup {Junk}}
        \cup {Obj(<<Field("b", n1), Field("a", n2)>>) :
                    n1 \in {Junk, Obj(<<>>)}, n2 \in {Junk, Obj(<<>>)}}
ArraySchemas == {Arr(q) : q \in SeqsUpTo(BasicSchemaTypes \cup {Junk}, 1)}
NestedMappings ==
    {Obj(<<Field("a", m)>>) :
        m \in {Obj(<<Field("b", n)>>) : n \in PairNodes}
              \cup {Obj(<<Field("_isSchemaType", Junk)>>)}
              \cup {Arr(<<n>>) : n \in RequiredSchemaTypes \cup {Junk}}}

\* the first arguments of isValidSchema, objectMatchesSchema, isValidShape, ...
SchemaInputs ==
    LeafSchemaTypes \cup NonSchemas \cup Mappings1 \cup Mappings2 \cup ArraySchemas
        \cup NestedMappings

Primitives ==
    {Undefined, Null, True, False, Num(0), Num(1), NaN, Str(""), Str("hi")}

ArrayValues ==
    {Arr(q) : q \in SeqsUpTo({Num(1), Str("hi")}, MaxArrayLen)}
        \cup {Arr(q) : q \in SeqsUpTo({Arr(<<Num(1)>>), Num(1)}, MaxArrayLen)}

FieldValues == {Num(1), Str("hi"), Null, Num(0), Arr(<<Num(1)>>), Obj(<<>>)}
ObjectValues1 ==
    {Obj(<<>>)}
        \cup {Obj(<<Field(key, x)>>) : key \in {"a", "b"}, x \in FieldValues}
        \cup {Obj(<<Field("a", x), Field("b", y)>>) : x \in {Num(1), Str("hi")}, y \in {Num(1), Str("hi")}}
        \cup {Obj(<<Field("a", x), Field("c", Num(1))>>) : x \in {Num(1), Null}}
ObjectValues2 ==
    {Obj(<<Field("a", Obj(<<Field(key, x)>>))>>) : key \in {"a", "b"}, x \in {Num(1), Str("hi"), Null}}

\* the values tested against schemas
Values ==
    Primitives \cup {DateV(TRUE), DateV(FALSE), PlainFn} \cup ArrayValues
        \cup ObjectValues1 \cup ObjectValues2

\* a value of each kind
KindValues ==
    Primitives \cup {DateV(TRUE), DateV(FALSE), PlainFn, Obj(<<>>), Obj(<<Field("a", Num(1))>>),
                     Arr(<<>>), Arr(<<Num(1)>>)}

\* the values a schema S is matched against: a mapping of SchemaTypes against
\* primitives and flat objects, a mapping of mappings against primitives
\* and nested objects, any other schema against a value of each kind
MatchValues(S) ==
    IF S.k # "object"
    THEN KindValues \cup {Arr(<<Arr(<<Num(1)>>), Num(1)>>)}
    ELSE IF \E i \in 1..Len(S.fields) : S.fields[i].val.k \in {"object", "array"}
    THEN Primitives \cup {Obj(<<>>)} \cup {Obj(<<Field("a", x)>>) : x \in FieldValues}
            \cup ObjectValues2
    ELSE Primitives \cup ObjectValues1

\* the element schemas given to isArrayOfType, and the values its outcome is
\* applied to
ElementSchemas ==
    LeafSchemaTypes \cup {Junk, Undefined, Obj(<<>>)}
        \cup {Obj(<<Field("a", n)>>) : n \in RequiredSchemaTypes \cup {Junk}}
ElementValues == ArrayValues \cup {Undefined, Null, Num(1), Str("hi"), Obj(<<>>)}

\* the predicates passed to getOptionalValidator
Predicates ==
    {SharedFn(c) : c \in SharedValidators}
        \cup {ArrayOfTypeFn(E, FunctionPrototype) : E \in {Junk} \cup BasicSchemaTypes}

\* the values a predicate or a SchemaType f is applied to: arrays and some
\* other values when f tests arrays element by element, a value of each kind
\* when it does not
CallValues(f) ==
    IF f.fn = "isArrayOfType" \/ (f.fn = "optional" /\ f.of.fn = "isArrayOfType")
    THEN ElementValues
    ELSE KindValues

(***************************************************************************)
(* The state machine: a client that invokes the exported functions         *)
(***************************************************************************)
TypeOK ==
    /\ pc \in {"idle", "done"}
    /\ DOMAIN proto = SharedValidators
    /\ \A T \in returned : T.fn = "optional" /\ T.of.fn = "shared"

Init ==
    /\ proto = [id \in SharedValidators |-> FunctionPrototype]
    /\ returned = {}
    /\ pc = "idle"
    /\ op = "none"
    /\ arg1 = Undefined
    /\ arg2 = Undefined
    /\ result = Ret(Undefined)

Returned(name, a1, a2, r) ==
    /\ pc' = "done"
    /\ op' = name
    /\ arg1' = a1
    /\ arg2' = a2
    /\ result' = r

\* SchemaTypes.<name>(opts): SchemaType() assigns the __proto__ of the closure
\* it is given, and then that of the shared validator
Construct ==
    /\ pc = "idle"
    /\ \E name \in SharedValidators, opts \in OptionsSet :
        /\ Cardinality({c \in SharedValidators : proto[c] # FunctionPrototype}
                            \cup {name}) <= MaxTypes
        /\ proto' = [proto EXCEPT ![name] = SchemaType(name, opts)]
        /\ returned' = returned \cup {SchemaTypes(name, opts)}
        /\ Returned("SchemaTypes", Str(name), opts, Ret(SchemaTypes(name, opts)))

\* the exported SchemaType(validate, type, opts) on a shared validator: it
\* assigns the __proto__ of validate and returns validate itself
SchemaTypeFunctionCall ==
    /\ pc = "idle"
    /\ \E id \in RawValidators, type \in TypeNames, opts \in ExportedCallOptions :
        /\ Cardinality({c \in SharedValidators : proto[c] # FunctionPrototype}
                            \cup {id}) <= MaxTypes
        /\ proto' = [proto EXCEPT ![id] = SchemaType(type, opts)]
        /\ Returned("SchemaType(validate, type, opts)", SharedFn(id),
                    Arr(<<Str(type), opts>>), Ret(SharedFn(id)))
    /\ UNCHANGED returned

\* the exported getOptionalSchemaTypeFactory(validator, typeName)(opts) on a
\* shared validator
GetOptionalSchemaTypeFactoryCall ==
    /\ pc = "idle"
    /\ \E id \in RawValidators, typeName \in TypeNames, opts \in ExportedCallOptions :
        /\ Cardinality({c \in SharedValidators : proto[c] # FunctionPrototype}
                            \cup {id}) <= MaxTypes
        /\ proto' = [proto EXCEPT ![id] = SchemaType(typeName, opts)]
        /\ returned' = returned
                            \cup {getOptionalSchemaTypeFactory(SharedFn(id), typeName, opts)}
        /\ Returned("getOptionalSchemaTypeFactory", SharedFn(id),
                    Arr(<<Str(typeName), opts>>),
                    Ret(getOptionalSchemaTypeFactory(SharedFn(id), typeName, opts)))

\* validator[variableName] = value for a variable that WithImmutableVariables
\* installed on the __proto__ of the validator: the assignment runs the setter
AssignVariable ==
    /\ pc = "idle"
    /\ \E id \in RawValidators, variableNames \in VariableNames, value \in AssignedValues :
        \E n \in 1..Len(variableNames) :
            LET variableName == variableNames[n]
            IN /\ \E i \in 1..Len(proto[id].fields) :
                    proto[id].fields[i].key = variableName /\ IsAccessor(proto[id].fields[i])
               /\ proto' = [proto EXCEPT
                                ![id] = AfterSetVariable(proto[id], variableName, value)]
               /\ Returned("set", SharedFn(id), Arr(<<Str(variableName), value>>),
                           setVariable(proto[id], variableName, value))
    /\ UNCHANGED returned

\* the exported WithImmutableVariables(Class, ...variableNames) on a shared
\* validator: it replaces the __proto__ of Class and returns Class
WithImmutableVariablesCall ==
    /\ pc = "idle"
    /\ \E id \in RawValidators, variableNames \in VariableNames :
        /\ Cardinality({c \in SharedValidators : proto[c] # FunctionPrototype}
                            \cup {id}) <= MaxTypes
        /\ proto' = [proto EXCEPT ![id] = WithImmutableVariables(proto[id], variableNames)]
        /\ Returned("WithImmutableVariables", SharedFn(id),
                    Arr([i \in 1..Len(variableNames) |-> Str(variableNames[i])]),
                    Ret(SharedFn(id)))
    /\ UNCHANGED returned

ArrayOfCall ==
    /\ pc = "idle"
    /\ \E E \in {Junk} \cup BasicSchemaTypes, options \in OptionsSet :
        Returned("arrayOf", E, options, Ret(arrayOf(E, options)))
    /\ UNCHANGED <<proto, returned>>

ShapeCall ==
    /\ pc = "idle"
    /\ \E X \in SchemaInputs : Returned("shape", X, Undefined, shape(X))
    /\ UNCHANGED <<proto, returned>>

IsValidSchemaCall ==
    /\ pc = "idle"
    /\ \E S \in SchemaInputs :
        Returned("isValidSchema", S, Undefined, isValidSchema(S, <<>>))
    /\ UNCHANGED <<proto, returned>>

ObjectMatchesSchemaCall ==
    /\ pc = "idle"
    /\ \E S \in SchemaInputs :
        \E v \in MatchValues(S) :
            Returned("objectMatchesSchema", S, v, objectMatchesSchema(S, v))
    /\ UNCHANGED <<proto, returned>>

IsArrayOfTypeCall ==
    /\ pc = "idle"
    /\ \E S \in ElementSchemas, x \in ElementValues :
        Returned("isArrayOfType", S, x, isArrayOfType(S, x))
    /\ UNCHANGED <<proto, returned>>

IsValidShapeCall ==
    /\ pc = "idle"
    /\ \E X \in SchemaInputs : Returned("isValidShape", X, Undefined, isValidShape(X))
    /\ UNCHANGED <<proto, returned>>

GetOptionalValidatorCall ==
    /\ pc = "idle"
    /\ \E p \in Predicates :
        \E x \in CallValues(p) :
            Returned("getOptionalValidator", p, x, getOptionalValidator(p, x))
    /\ UNCHANGED <<proto, returned>>

\* T(x) for a SchemaType T
SchemaTypeCall ==
    /\ pc = "idle"
    /\ \E T \in LeafSchemaTypes :
        \E x \in CallValues(T) : Returned("SchemaType", T, x, Call(T, x))
    /\ UNCHANGED <<proto, returned>>

\* the client takes the outcome and goes on
Continue ==
    /\ pc = "done"
    /\ pc' = "idle"
    /\ op' = "none"
    /\ arg1' = Undefined
    /\ arg2' = Undefined
    /\ result' = Ret(Undefined)
    /\ UNCHANGED <<proto, returned>>

Next ==
    \/ Construct
    \/ SchemaTypeFunctionCall
    \/ GetOptionalSchemaTypeFactoryCall
    \/ WithImmutableVariablesCall
    \/ AssignVariable
    \/ ArrayOfCall
    \/ ShapeCall
    \/ IsValidSchemaCall
    \/ ObjectMatchesSchemaCall
    \/ IsArrayOfTypeCall
    \/ IsValidShapeCall
    \/ GetOptionalValidatorCall
    \/ SchemaTypeCall
    \/ Continue

Spec == Init /\ [][Next]_vars

(***************************************************************************)
(* The data model the properties are stated in                             *)
(***************************************************************************)
\* v is a SchemaType that a constructor has returned, or the isRequired
\* sibling of one; SchemaType() has returned a shared validator exactly when
\* the __proto__ of that validator holds the _type that SchemaType() wrote
\* (WithImmutableVariables is given no variable of that name)
IsSchemaType(v) ==
    /\ v.k = "function"
    /\ CASE v.fn = "optional" -> TRUE
         [] v.fn = "shared" -> HasOwn(proto[v.id].fields, "_type")
         [] v.fn \in {"isArrayOfType", "shapeValidator"} -> v.proto # FunctionPrototype
         [] OTHER -> FALSE

\* v is a plain key -> value mapping
IsMapping(v) == v.k = "object" /\ "builtin" \notin DOMAIN v

\* a Schema: a SchemaType, or a non-empty mapping whose values are Schemas
RECURSIVE WellFormed(_)
WellFormed(S) ==
    \/ IsSchemaType(S)
    \/ /\ IsMapping(S)
       /\ Len(S.fields) > 0
       /\ \A i \in 1..Len(S.fields) : WellFormed(S.fields[i].val)

Accepted(S) == ~IsThrow(isValidSchema(S, <<>>))

Called(name) == pc = "done" /\ op = name

\* what the base predicate of each shared constructor accepts
BasePredicate(name, x) ==
    CASE name = "any" -> x.k # "undefined"
      [] name = "string" -> x.k = "string"
      [] name = "boolean" -> x.k = "boolean"
      [] name = "function" -> x.k = "function"
      [] name = "number" -> x.k \in {"number", "NaN"}
      [] name = "date" -> x.k = "date" /\ x.valid
      [] name = "array" -> x.k = "array"
      [] name = "object" -> IsMapping(x)

\* the match of a value against a schema, field by field: a field is read
\* from a value that is structured data and is absent from any other value
FieldOf(v, key) ==
    IF v.k \in {"object", "array", "function", "date"} THEN Get(v, key) ELSE Undefined

RECURSIVE FieldwiseMatch(_, _)
FieldwiseMatch(S, v) ==
    IF IsSchemaType(S) THEN Call(S, v) = Ret(True)
    ELSE \A i \in 1..Len(S.fields) :
            FieldwiseMatch(S.fields[i].val, FieldOf(v, S.fields[i].key))

\* every leaf of the mapping S is a SchemaType of a shared constructor
RECURSIVE BasicLeaves(_)
BasicLeaves(S) ==
    IF IsMapping(S)
    THEN /\ Len(S.fields) > 0
         /\ \A i \in 1..Len(S.fields) :
                S.fields[i].key # "_isSchemaType" /\ BasicLeaves(S.fields[i].val)
    ELSE S \in BasicSchemaTypes

\* no plain object in v has a field named _isSchemaType
RECURSIVE NoMarkerField(_)
NoMarkerField(v) ==
    CASE v.k = "object" ->
            \A i \in 1..Len(v.fields) :
                v.fields[i].key # "_isSchemaType" /\ NoMarkerField(v.fields[i].val)
      [] v.k = "array" -> \A i \in 1..Len(v.els) : NoMarkerField(v.els[i])
      [] OTHER -> TRUE

(***************************************************************************)
(* Properties                                                              *)
(***************************************************************************)

\* C1: for every schema that isValidSchema accepts and for every value,
\* objectMatchesSchema returns true or false; it never throws.
C1_MatchReturnsBoolean ==
    (Called("objectMatchesSchema") /\ Accepted(arg1))
        => result \in {Ret(True), Ret(False)}

\* C2: for every schema that isValidSchema rejects, with whatever error, and
\* for every value, objectMatchesSchema throws the one error 'Expected
\* "schema" to be a valid schema'; it returns nothing.
C2_InvalidSchemaFixedError ==
    Called("objectMatchesSchema") =>
        /\ ~Accepted(arg1) => result = Throw(ExpectedValidSchema)
        /\ arg1 \in {Undefined, Null} => result = Throw(ExpectedValidSchema)

\* a schema with an invalid node two levels down was matched against a value
\* that is an object
C2_Witness ==
    /\ Called("objectMatchesSchema")
    /\ IsMapping(arg1)
    /\ isValidSchema(arg1, <<>>) = Throw(invalidSchemaMessage(Junk, <<"a", "b">>))
    /\ IsMapping(arg2)
    /\ result = Throw(ExpectedValidSchema)

\* C3: isValidSchema returns null for every SchemaType and for every
\* non-empty mapping all of whose leaves are SchemaTypes; it throws for {},
\* for a primitive, for undefined, for null and for every mapping that holds
\* at some depth a value that is not a valid schema.
C3_ValidSchemaDecision ==
    Called("isValidSchema") =>
        /\ WellFormed(arg1) => result = Ret(Null)
        /\ (arg1 = Obj(<<>>) \/ arg1.k \in {"undefined", "null", "string", "number",
                                           "NaN", "boolean"}) => IsThrow(result)
        /\ (IsMapping(arg1) /\ ~WellFormed(arg1)) => IsThrow(result)

\* C4: isValidSchema accepts a node only if it is a SchemaType or a non-empty
\* plain mapping whose values are recursively valid; every other node is
\* rejected, an array whose elements are all SchemaTypes among them.  (Stated
\* for the nodes that hold no field named _isSchemaType.)
C4_AcceptsOnlySchemas ==
    (Called("isValidSchema") /\ NoMarkerField(arg1) /\ result = Ret(Null))
        => WellFormed(arg1)

\* C5: shape(X) throws exactly when X is not a plain object or is not a valid
\* schema; for a plain object that is a valid schema it returns a factory.
C5_ShapeConstruction ==
    Called("shape") =>
        IF IsMapping(arg1) /\ WellFormed(arg1)
        THEN result = Ret(ShapeFactory(arg1))
        ELSE IsThrow(result)

\* C6: isValidShape(X) returns null when X is a plain object that is a valid
\* schema, and throws in every other case.
C6_ValidShapeDecision ==
    Called("isValidShape") =>
        IF IsMapping(arg1) /\ WellFormed(arg1)
        THEN result = Ret(Null)
        ELSE IsThrow(result)

\* C7: getOptionalValidator(p)(undefined) is true whatever p says, and
\* getOptionalValidator(p)(x) is p(x) for every defined x, null included.
C7_OptionalValidator ==
    Called("getOptionalValidator") =>
        /\ arg2 = Undefined => result = Ret(True)
        /\ arg2 # Undefined => result = Call(arg1, arg2)

\* the wrapped predicate rejects undefined, and the wrapper accepted it
C7_Witness ==
    /\ Called("getOptionalValidator")
    /\ arg2 = Undefined
    /\ Call(arg1, Undefined) = Ret(False)
    /\ result = Ret(True)

\* C8: for every valid element schema S, isArrayOfType(S)(x) is false, and
\* does not throw, for every x that is not an array; for an array it is true
\* exactly when every element matches S, and one element that does not match
\* makes it false.
C8_ArrayOfType ==
    (Called("isArrayOfType") /\ Accepted(arg1)) =>
        /\ arg2.k # "array" => result = Ret(False)
        /\ arg2.k = "array" =>
            /\ result = Ret(True) <=>
                    \A i \in 1..Len(arg2.els) :
                        objectMatchesSchema(arg1, arg2.els[i]) = Ret(True)
            /\ (\E i \in 1..Len(arg2.els) :
                    objectMatchesSchema(arg1, arg2.els[i]) = Ret(False))
                  => result = Ret(False)

\* C9: a SchemaType T of a constructor with base predicate p has
\* T(undefined) = true and T(x) = p(x) for every defined x, and T.isRequired(x)
\* = p(x) for every x, so that T.isRequired(undefined) is false; null is
\* rejected by string(), number(), boolean(), object() and date(), in both
\* variants.
C9_OptionalAndRequired ==
    Called("SchemaType") =>
        LET required == arg1.fn # "optional"
            validator == IF required THEN arg1 ELSE arg1.of
            p == IF validator.fn = "shared"
                 THEN Ret(Bool(BasePredicate(validator.id, arg2)))
                 ELSE isArrayOfType(validator.type, arg2)
        IN /\ (~required /\ arg2 = Undefined) => result = Ret(True)
           /\ (required \/ arg2 # Undefined) => result = p
           /\ (required /\ arg2 = Undefined) => result = Ret(False)
           /\ (arg2 = Null /\ validator.fn = "shared"
                 /\ validator.id \in {"string", "number", "boolean", "object", "date"})
                => result = Ret(False)

\* null was put to object().isRequired, or to object(), and rejected
C9_Witness ==
    /\ Called("SchemaType")
    /\ arg1 \in {SharedFn("object"), SchemaTypes("object", NoOptions)}
    /\ arg2 = Null
    /\ result = Ret(False)

\* C10: for a valid mapping S and a plain object v, objectMatchesSchema(S, v)
\* is the AND, over every field of S at every level, of the match of that
\* field against the same field of v: false when a required field is missing,
\* true when only optional fields are.  (Stated for the mappings whose leaves
\* are SchemaTypes of the shared constructors.)
C10_FieldwiseAnd ==
    (Called("objectMatchesSchema") /\ IsMapping(arg1) /\ BasicLeaves(arg1)
        /\ IsMapping(arg2))
        => result = Ret(Bool(FieldwiseMatch(arg1, arg2)))

\* v is undefined, null or a primitive: it is not structured data
NotStructured(v) == v.k \in {"undefined", "null", "boolean", "number", "NaN", "string"}

\* some leaf of the mapping S is an isRequired sibling
RECURSIVE HasRequiredLeaf(_)
HasRequiredLeaf(S) ==
    IF IsMapping(S)
    THEN \E i \in 1..Len(S.fields) : HasRequiredLeaf(S.fields[i].val)
    ELSE S.k = "function" /\ S.fn # "optional"

\* C11: when a valid mapping S is matched against a value that is undefined,
\* null or a primitive (0, false, '', NaN among them), every field of S is
\* matched against undefined and never against the value itself, so that a
\* mapping with a required field does not match such a value.  (Stated for
\* the mappings whose leaves are SchemaTypes of the shared constructors.)
C11_AbsentForNonObjects ==
    (Called("objectMatchesSchema") /\ IsMapping(arg1) /\ BasicLeaves(arg1)
        /\ NotStructured(arg2))
        => /\ result = Ret(Bool(FieldwiseMatch(arg1, Undefined)))
           /\ HasRequiredLeaf(arg1) => result = Ret(False)

\* the metadata a client reads on a SchemaType: the marker, the type tag, the
\* options it was constructed with and the element type
MetadataKeys == {"_isSchemaType", "_type", "required", "_elementType"}
Metadata(T) == [key \in MetadataKeys |-> Get(T, key)]

\* the SchemaTypes that constructor invocations have returned so far
ReturnedSchemaTypes == {T \in LeafSchemaTypes : T.fn = "optional"}

\* C12: the metadata read on a SchemaType that a constructor invocation has
\* returned, and on its isRequired sibling, is the same after every later
\* step as before it, whatever constructor is invoked and with whatever
\* options.
C12_MetadataNeverChanges ==
    [][\A T \in ReturnedSchemaTypes :
            /\ Metadata(T)' = Metadata(T)
            /\ Metadata(Get(T, "isRequired"))' = Metadata(Get(T, "isRequired"))]_vars

\* C13: a constructor invocation changes the outcome of no validation call:
\* for every schema argument S and every value v, isValidSchema(S) succeeds
\* after the invocation exactly if it succeeded before, and
\* objectMatchesSchema(S, v) has the same outcome after as before; so a raw
\* validator function, rejected as a schema before its constructor is
\* invoked, is rejected after.
C13_NoHiddenState ==
    [][(pc = "idle" /\ op' \in {"SchemaTypes", "arrayOf"}) =>
            \A S \in SchemaInputs :
                /\ IsThrow(isValidSchema(S, <<>>))' = IsThrow(isValidSchema(S, <<>>))
                /\ \A v \in Values :
                        objectMatchesSchema(S, v)' = objectMatchesSchema(S, v)]_vars

\* the concatenation of the sequences of seqs
ConcatAll(seqs) ==
    LET RECURSIVE cat(_)
        cat(i) == IF i > Len(seqs) THEN <<>> ELSE seqs[i] \o cat(i + 1)
    IN cat(1)

\* the nodes of S that make isValidSchema fail, each with its path from the
\* root, in field-iteration order: a node that is undefined or null, or that
\* is neither taken for a SchemaType nor a non-empty object
RECURSIVE OffendingNodes(_, _)
OffendingNodes(S, path) ==
    IF S.k \in {"undefined", "null"} THEN <<[node |-> S, path |-> path]>>
    ELSE IF Truthy(Get(S, "_isSchemaType")) THEN <<>>
    ELSE IF typeOf(S) = "object" /\ Len(ObjectKeys(S)) > 0
    THEN LET keys == ObjectKeys(S)
         IN ConcatAll([i \in 1..Len(keys) |->
                          OffendingNodes(Get(S, keys[i]), Append(path, keys[i]))])
    ELSE <<[node |-> S, path |-> path]>>

\* C14: whenever isValidSchema fails, the error is the schema-validation
\* error made of the offending node and of its path from the root (empty at
\* the root), whatever the node is (a literal, an empty mapping, null,
\* undefined); of several offending nodes it is the first in field-iteration
\* order.
C14_ErrorNamesFirstOffender ==
    (Called("isValidSchema") /\ IsThrow(result)) =>
        LET first == OffendingNodes(arg1, <<>>)[1]
        IN result = Throw(invalidSchemaMessage(first.node, first.path))

====
